---- MODULE Spec2Model ----
(***************************************************************************)
(* Model of 05-experiments/hash_integrity_demo.py: the content hasher      *)
(* git_hash_object and the four demonstration routines run by the script.  *)
(*                                                                         *)
(* Python values are records [type, val]: a str is the sequence of its     *)
(* code points, bytes the sequence of its bytes, an int n the sequence     *)
(* <<n>>, None the empty sequence.  A call either returns a value or       *)
(* raises an exception: [raised, value].  SHA-1 is computed as             *)
(* hashlib.sha1 computes it (FIPS 180-4), on 32-bit words kept as pairs    *)
(* of 16-bit halves <<high, low>>.                                         *)
(***************************************************************************)
EXTENDS Integers, Sequences, FiniteSets, TLC

VARIABLES
  pc,         \* position of the script: the next block of statements to run
  locals,     \* local variables of the running demonstration routine
  stdout,     \* what print has written: one entry per print call
  exit_code,  \* process exit status, -1 while the script runs
  call        \* an invocation of git_hash_object by an importer of the module

vars == <<pc, locals, stdout, exit_code, call>>

(***************************************************************************)
(* Bounds                                                                  *)
(***************************************************************************)
MaxLen == 2       \* longest content, in code points, given to a direct call
MaxTagLen == 1    \* longest type tag built from TagChars
MaxRandom == 2    \* os.urandom draws one of MaxRandom + 1 byte strings

(***************************************************************************)
(* Python values                                                           *)
(***************************************************************************)
PyStr(s) == [type |-> "str", val |-> s]
PyBytes(b) == [type |-> "bytes", val |-> b]
PyInt(n) == [type |-> "int", val |-> <<n>>]
PyNone == [type |-> "NoneType", val |-> <<>>]
PyBool(b) == [type |-> "bool", val |-> <<IF b THEN 1 ELSE 0>>]
Return(v) == [raised |-> FALSE, value |-> v]
Raise(e) == [raised |-> TRUE, value |-> [type |-> e, val |-> <<>>]]

(***************************************************************************)
(* hashlib.sha1(data).hexdigest()                                          *)
(***************************************************************************)
\* F applied to the value of x: TLC evaluates x once, before F
Then(x, F(_)) == CHOOSE r \in {F(v) : v \in {x}} : TRUE

Bit(a, i) == (a \div 2^i) % 2

\* one bit of "ch", (x AND y) OR (NOT x AND z), of "maj", the majority of
\* x, y, z, or of "parity", x XOR y XOR z XOR u
BitOp(op, x, y, z, u) ==
  IF op = "ch" THEN (IF x = 1 THEN y ELSE z)
  ELSE IF op = "maj" THEN (IF x + y + z >= 2 THEN 1 ELSE 0)
  ELSE (x + y + z + u) % 2

BitAt(op, a, b, c, d, i) == BitOp(op, Bit(a, i), Bit(b, i), Bit(c, i), Bit(d, i))

Nibble(op, a, b, c, d, i) ==
  BitAt(op, a, b, c, d, i) + 2 * BitAt(op, a, b, c, d, i + 1)
    + 4 * BitAt(op, a, b, c, d, i + 2) + 8 * BitAt(op, a, b, c, d, i + 3)

\* the operation on 16-bit operands
Bitwise(op, a, b, c, d) ==
  Nibble(op, a, b, c, d, 0) + 16 * Nibble(op, a, b, c, d, 4)
    + 256 * Nibble(op, a, b, c, d, 8) + 4096 * Nibble(op, a, b, c, d, 12)

Op32(op, a, b, c, d) ==
  <<Bitwise(op, a[1], b[1], c[1], d[1]), Bitwise(op, a[2], b[2], c[2], d[2])>>

\* a + b + c + d + e modulo 2^32
Add32(a, b, c, d, e) ==
  <<(a[1] + b[1] + c[1] + d[1] + e[1] + ((a[2] + b[2] + c[2] + d[2] + e[2]) \div 65536)) % 65536,
    (a[2] + b[2] + c[2] + d[2] + e[2]) % 65536>>

\* rotate left by n bits, 0 < n < 16
Rotl16(hi, lo, n) ==
  <<((hi * 2^n) % 65536) + (lo \div 2^(16 - n)), ((lo * 2^n) % 65536) + (hi \div 2^(16 - n))>>

\* rotate left by n bits, 0 < n < 32, n # 16
Rotl(u, n) == IF n < 16 THEN Rotl16(u[1], u[2], n) ELSE Rotl16(u[2], u[1], n - 16)

\* message padding: 0x80, zeros up to 56 mod 64, the bit length on 64 bits
Pad(bytes) ==
  Then(bytes, LAMBDA b :
    b \o <<128>> \o [i \in 1..((55 - Len(b)) % 64) |-> 0] \o <<0, 0, 0, 0>>
      \o <<((8 * Len(b)) \div 16777216) % 256, ((8 * Len(b)) \div 65536) % 256,
           ((8 * Len(b)) \div 256) % 256, (8 * Len(b)) % 256>>)

RECURSIVE Sched(_, _)
\* the message schedule w extended by k words
Sched(w, k) ==
  IF k = 0 THEN w
  ELSE IF k = 1
    THEN Then(Op32("parity", w[Len(w) - 2], w[Len(w) - 7], w[Len(w) - 13], w[Len(w) - 15]),
              LAMBDA x : Append(w, Rotl(x, 1)))
    ELSE Then(Sched(w, k \div 2), LAMBDA m : Sched(m, k - (k \div 2)))

F(t, b, c, d) ==
  IF t < 20 THEN Op32("ch", b, c, d, <<0, 0>>)
  ELSE IF t < 40 THEN Op32("parity", b, c, d, <<0, 0>>)
  ELSE IF t < 60 THEN Op32("maj", b, c, d, <<0, 0>>)
  ELSE Op32("parity", b, c, d, <<0, 0>>)

\* round constants 5A827999, 6ED9EBA1, 8F1BBCDC, CA62C1D6
K(t) ==
  IF t < 20 THEN <<23170, 31129>>
  ELSE IF t < 40 THEN <<28377, 60321>>
  ELSE IF t < 60 THEN <<36635, 48348>>
  ELSE <<51810, 49622>>

Round(t, s, w) ==
  Then(F(t, s[2], s[3], s[4]), LAMBDA f :
    <<Add32(Rotl(s[1], 5), f, s[5], K(t), w[t + 1]), s[1], Rotl(s[2], 30), s[3], s[4]>>)

RECURSIVE Rounds(_, _, _, _)
\* rounds lo .. hi - 1 applied to the working state s
Rounds(lo, hi, s, w) ==
  IF hi = lo THEN s
  ELSE IF hi = lo + 1 THEN Round(lo, s, w)
  ELSE Then(Rounds(lo, (lo + hi) \div 2, s, w), LAMBDA m : Rounds((lo + hi) \div 2, hi, m, w))

\* the 16 big-endian words of the 64-byte block of p that starts after off
Words(p, off) ==
  Then([i \in 1..16 |-> <<p[off + 4 * i - 3] * 256 + p[off + 4 * i - 2],
                          p[off + 4 * i - 1] * 256 + p[off + 4 * i]>>] \o <<>>,
       LAMBDA w0 : Sched(w0, 64))

\* one 64-byte block of the padded message p
Block(h, p, off) ==
  Then(Words(p, off), LAMBDA w :
    Then(Rounds(0, 80, h, w), LAMBDA s :
      <<Add32(h[1], s[1], <<0, 0>>, <<0, 0>>, <<0, 0>>), Add32(h[2], s[2], <<0, 0>>, <<0, 0>>, <<0, 0>>),
        Add32(h[3], s[3], <<0, 0>>, <<0, 0>>, <<0, 0>>), Add32(h[4], s[4], <<0, 0>>, <<0, 0>>, <<0, 0>>),
        Add32(h[5], s[5], <<0, 0>>, <<0, 0>>, <<0, 0>>)>>))

RECURSIVE Blocks(_, _, _)
Blocks(h, p, off) ==
  IF off >= Len(p) THEN h
  ELSE Then(Block(h, p, off), LAMBDA m : Blocks(m, p, off + 64))

\* a lowercase hexadecimal digit, as a code point
HexDigit(n) == IF n < 10 THEN 48 + n ELSE 87 + n

Hex16(x) ==
  <<HexDigit(x \div 4096), HexDigit((x \div 256) % 16), HexDigit((x \div 16) % 16), HexDigit(x % 16)>>

\* initial hash value 67452301 EFCDAB89 98BADCFE 10325476 C3D2E1F0
sha1_hexdigest(bytes) ==
  Then(Pad(bytes), LAMBDA p :
    Then(Blocks(<<<<26437, 8961>>, <<61389, 43913>>, <<39098, 56574>>,
                  <<4146, 21622>>, <<50130, 57840>>>>, p, 0), LAMBDA h :
      Hex16(h[1][1]) \o Hex16(h[1][2]) \o Hex16(h[2][1]) \o Hex16(h[2][2]) \o Hex16(h[3][1])
        \o Hex16(h[3][2]) \o Hex16(h[4][1]) \o Hex16(h[4][2]) \o Hex16(h[5][1]) \o Hex16(h[5][2])))

(***************************************************************************)
(* Python string operations used by the script                             *)
(***************************************************************************)
RECURSIVE Decimal(_)
\* str(n) of a non-negative int
Decimal(n) == IF n < 10 THEN <<48 + n>> ELSE Decimal(n \div 10) \o <<48 + (n % 10)>>

\* repr of a bytes object whose bytes are printable ASCII: b'...'
ReprBytes(b) == <<98, 39>> \o b \o <<39>>

\* format(v, ''): what an f-string field {v} renders
Format(v) ==
  IF v.type = "str" THEN v.val
  ELSE IF v.type = "int" THEN Decimal(v.val[1])
  ELSE IF v.type = "bytes" THEN ReprBytes(v.val)
  ELSE <<78, 111, 110, 101>>

IsSurrogate(cp) == cp >= 55296 /\ cp <= 57343

Utf8Char(cp) ==
  IF cp < 128 THEN <<cp>>
  ELSE IF cp < 2048 THEN <<192 + (cp \div 64), 128 + (cp % 64)>>
  ELSE IF cp < 65536 THEN <<224 + (cp \div 4096), 128 + ((cp \div 64) % 64), 128 + (cp % 64)>>
  ELSE <<240 + (cp \div 262144), 128 + ((cp \div 4096) % 64), 128 + ((cp \div 64) % 64), 128 + (cp % 64)>>

RECURSIVE Utf8Range(_, _, _)
Utf8Range(s, lo, hi) ==
  IF lo > hi THEN <<>>
  ELSE IF lo = hi THEN Utf8Char(s[lo])
  ELSE Then((lo + hi) \div 2, LAMBDA mid : Utf8Range(s, lo, mid) \o Utf8Range(s, mid + 1, hi))

\* s.encode('utf-8'): a lone surrogate cannot be encoded
encode_utf8(s) ==
  Then(s, LAMBDA v :
    IF \E i \in 1..Len(v) : IsSurrogate(v[i]) THEN Raise("UnicodeEncodeError")
    ELSE Return(PyBytes(Utf8Range(v, 1, Len(v)))))

\* bytes.hex()
Hex(b) ==
  [i \in 1..(2 * Len(b)) |->
     IF i % 2 = 1 THEN HexDigit(b[(i + 1) \div 2] \div 16) ELSE HexDigit(b[i \div 2] % 16)]

\* the left-to-right, non-overlapping occurrences of a non-empty old in s
Occurrences(s, old) ==
  {i \in 1..(Len(s) - Len(old) + 1) : SubSeq(s, i, i + Len(old) - 1) = old}

RECURSIVE ReplaceFrom(_, _, _, _)
ReplaceFrom(s, old, new, from) ==
  Then({i \in Occurrences(s, old) : i >= from}, LAMBDA later :
    IF later = {} THEN SubSeq(s, from, Len(s))
    ELSE Then(CHOOSE j \in later : \A k \in later : j <= k, LAMBDA i :
           SubSeq(s, from, i - 1) \o new \o ReplaceFrom(s, old, new, i + Len(old))))

RECURSIVE Interleave(_, _, _, _)
Interleave(s, new, lo, hi) ==
  IF lo > hi THEN <<>>
  ELSE IF lo = hi THEN <<s[lo]>> \o new
  ELSE Then((lo + hi) \div 2, LAMBDA mid :
         Interleave(s, new, lo, mid) \o Interleave(s, new, mid + 1, hi))

\* a faulty variant: the result of the replacement is dropped
replace_dropped(s, old, new) == s

\* s.replace(old, new): every occurrence; an empty old matches between characters
replace(s, old, new) ==
  IF old = <<>> THEN new \o Interleave(s, new, 1, Len(s))
  ELSE ReplaceFrom(s, old, new, 1)

(***************************************************************************)
(* git_hash_object (lines 12-16)                                           *)
(***************************************************************************)
\* a faulty variant: the type tag is left out of the header
header_without_type(obj_type, content) ==
  IF content.type \notin {"str", "bytes"} THEN Raise("TypeError")
  ELSE Return(PyStr(<<32>> \o Decimal(Len(content.val)) \o <<0>>))

\* line 14: f"{obj_type} {len(content)}\0"; len raises on an int or None
header(obj_type, content) ==
  IF content.type \notin {"str", "bytes"} THEN Raise("TypeError")
  ELSE Return(PyStr(Format(obj_type) \o <<32>> \o Decimal(Len(content.val)) \o <<0>>))

\* a faulty variant: only the header is encoded
full_data_header_only(obj_type, content) ==
  LET h == header(obj_type, content)
  IN IF h.raised THEN h
     ELSE IF content.type # "str" THEN Raise("TypeError")
     ELSE encode_utf8(h.value.val)

\* line 15: (header + content).encode('utf-8'); str + bytes raises
full_data(obj_type, content) ==
  LET h == header(obj_type, content)
  IN IF h.raised THEN h
     ELSE IF content.type # "str" THEN Raise("TypeError")
     ELSE encode_utf8(h.value.val \o content.val)

git_hash_object(obj_type, content) ==
  Then(full_data(obj_type, content), LAMBDA d :
    IF d.raised THEN d ELSE Return(PyStr(sha1_hexdigest(d.value.val))))

(***************************************************************************)
(* Direct calls of git_hash_object by an importer of the module: the       *)
(* arguments are drawn from bounded sets of Python values.                 *)
(***************************************************************************)
SeqsUpTo(S, n) == UNION {[1..k -> S] : k \in 0..n}

ContentChars == {0, 49, 233, 55296}    \* NUL, '1', U+00E9, a lone surrogate
TagChars == {0, 32, 49, 97}            \* NUL, ' ', '1', 'a'
Blob == <<98, 108, 111, 98>>           \* "blob"
Tree == <<116, 114, 101, 101>>         \* "tree"

StrContents == {PyStr(s) : s \in SeqsUpTo(ContentChars, MaxLen)}
OtherContents == {PyBytes(<<>>), PyBytes(<<97>>), PyInt(7), PyNone}
StrTags == {PyStr(s) : s \in SeqsUpTo(TagChars, MaxTagLen)} \cup {PyStr(Blob)}
OtherTags == {PyInt(42), PyNone, PyBytes(<<97>>)}

NoCall == [phase |-> "none", obj_type |-> PyNone, content |-> PyNone, outcome |-> Return(PyNone)]

InitCall ==
  /\ pc = "imported"
  /\ locals = <<>>
  /\ stdout = <<>>
  /\ exit_code = -1
  /\ \E t \in StrTags \cup OtherTags, c \in StrContents \cup OtherContents :
       call = [phase |-> "pending", obj_type |-> t, content |-> c, outcome |-> Return(PyNone)]

\* the importer's call runs to its return or to the exception it raises
call_git_hash_object ==
  /\ call.phase = "pending"
  /\ call' = [call EXCEPT !.phase = "done",
                          !.outcome = git_hash_object(call.obj_type, call.content)]
  /\ UNCHANGED <<pc, locals, stdout, exit_code>>

NextCall == call_git_hash_object

SpecCall == InitCall /\ [][NextCall]_vars

(***************************************************************************)
(* String literals of the script, as code point sequences                  *)
(***************************************************************************)
\* lines 24, 34: "Hello, Git!"
HelloGit ==
  <<72, 101, 108, 108, 111, 44, 32, 71, 105, 116, 33>>

\* line 35: "Hello, Git?"
HelloGitQ ==
  <<72, 101, 108, 108, 111, 44, 32, 71, 105, 116, 63>>

\* lines 48, 122: "README.md"
ReadmeName ==
  <<82, 69, 65, 68, 77, 69, 46, 109, 100>>

\* line 48: "# My Project\nThis is awesome!"
ReadmeText ==
  <<35, 32, 77, 121, 32, 80, 114, 111, 106, 101, 99, 116, 10, 84, 104, 105,
    115, 32, 105, 115, 32, 97, 119, 101, 115, 111, 109, 101, 33>>

\* line 49: "main.py"
MainName ==
  <<109, 97, 105, 110, 46, 112, 121>>

\* lines 49, 120: "print('Hello, World!')"
MainText ==
  <<112, 114, 105, 110, 116, 40, 39, 72, 101, 108, 108, 111, 44, 32, 87, 111,
    114, 108, 100, 33, 39, 41>>

\* line 50: "config.json"
ConfigName ==
  <<99, 111, 110, 102, 105, 103, 46, 106, 115, 111, 110>>

\* line 50: "{\"version\": \"1.0\", \"debug\": true}"
ConfigText ==
  <<123, 34, 118, 101, 114, 115, 105, 111, 110, 34, 58, 32, 34, 49, 46, 48,
    34, 44, 32, 34, 100, 101, 98, 117, 103, 34, 58, 32, 116, 114, 117, 101,
    125>>

\* line 62: "def fibonacci(n):\n    return n if n <= 1 else fibonacci(n-1) + fibonacci(n-2)"
FibonacciText ==
  <<100, 101, 102, 32, 102, 105, 98, 111, 110, 97, 99, 99, 105, 40, 110, 41,
    58, 10, 32, 32, 32, 32, 114, 101, 116, 117, 114, 110, 32, 110, 32, 105,
    102, 32, 110, 32, 60, 61, 32, 49, 32, 101, 108, 115, 101, 32, 102, 105,
    98, 111, 110, 97, 99, 99, 105, 40, 110, 45, 49, 41, 32, 43, 32, 102, 105,
    98, 111, 110, 97, 99, 99, 105, 40, 110, 45, 50, 41>>

\* line 70: "fibonacci"
Fibonacci ==
  <<102, 105, 98, 111, 110, 97, 99, 99, 105>>

\* line 70: "fibonaci"
Fibonaci ==
  <<102, 105, 98, 111, 110, 97, 99, 105>>

\* line 94: "Version 1.0.0"
Version100 ==
  <<86, 101, 114, 115, 105, 111, 110, 32, 49, 46, 48, 46, 48>>

\* line 95: "Version 1.0.1"
Version101 ==
  <<86, 101, 114, 115, 105, 111, 110, 32, 49, 46, 48, 46, 49>>

\* line 96: "Version 1.1.0"
Version110 ==
  <<86, 101, 114, 115, 105, 111, 110, 32, 49, 46, 49, 46, 48>>

\* line 97: "Version 2.0.0"
Version200 ==
  <<86, 101, 114, 115, 105, 111, 110, 32, 50, 46, 48, 46, 48>>

\* line 98: "Random content "
RandomContent ==
  <<82, 97, 110, 100, 111, 109, 32, 99, 111, 110, 116, 101, 110, 116, 32>>

\* line 99: "Another random "
AnotherRandom ==
  <<65, 110, 111, 116, 104, 101, 114, 32, 114, 97, 110, 100, 111, 109, 32>>

\* line 100: "The quick brown fox jumps over the lazy dog"
QuickFox ==
  <<84, 104, 101, 32, 113, 117, 105, 99, 107, 32, 98, 114, 111, 119, 110, 32,
    102, 111, 120, 32, 106, 117, 109, 112, 115, 32, 111, 118, 101, 114, 32,
    116, 104, 101, 32, 108, 97, 122, 121, 32, 100, 111, 103>>

\* line 101: "The quick brown fox jumps over the lazy dog."
QuickFoxDot ==
  <<84, 104, 101, 32, 113, 117, 105, 99, 107, 32, 98, 114, 111, 119, 110, 32,
    102, 111, 120, 32, 106, 117, 109, 112, 115, 32, 111, 118, 101, 114, 32,
    116, 104, 101, 32, 108, 97, 122, 121, 32, 100, 111, 103, 46>>

\* line 120: "src/main.py"
SrcMainName ==
  <<115, 114, 99, 47, 109, 97, 105, 110, 46, 112, 121>>

\* line 121: "src/utils.py"
SrcUtilsName ==
  <<115, 114, 99, 47, 117, 116, 105, 108, 115, 46, 112, 121>>

\* line 121: "def helper(): return True"
UtilsText ==
  <<100, 101, 102, 32, 104, 101, 108, 112, 101, 114, 40, 41, 58, 32, 114,
    101, 116, 117, 114, 110, 32, 84, 114, 117, 101>>

\* line 122: "# My Project"
ReadmeTitle ==
  <<35, 32, 77, 121, 32, 80, 114, 111, 106, 101, 99, 116>>

\* line 123: "LICENSE"
LicenseName ==
  <<76, 73, 67, 69, 78, 83, 69>>

\* line 123: "MIT License"
LicenseText ==
  <<77, 73, 84, 32, 76, 105, 99, 101, 110, 115, 101>>

\* line 135: "100644 main.py\u0000"
EntryMain ==
  <<49, 48, 48, 54, 52, 52, 32, 109, 97, 105, 110, 46, 112, 121, 0>>

\* line 136: "100644 utils.py\u0000"
EntryUtils ==
  <<49, 48, 48, 54, 52, 52, 32, 117, 116, 105, 108, 115, 46, 112, 121, 0>>

\* line 141: "040000 src\u0000"
EntrySrc ==
  <<48, 52, 48, 48, 48, 48, 32, 115, 114, 99, 0>>

\* line 142: "100644 README.md\u0000"
EntryReadme ==
  <<49, 48, 48, 54, 52, 52, 32, 82, 69, 65, 68, 77, 69, 46, 109, 100, 0>>

\* line 143: "100644 LICENSE\u0000"
EntryLicense ==
  <<49, 48, 48, 54, 52, 52, 32, 76, 73, 67, 69, 78, 83, 69, 0>>

\* line 154: "print('Hello, Modified World!')"
ModifiedText ==
  <<112, 114, 105, 110, 116, 40, 39, 72, 101, 108, 108, 111, 44, 32, 77, 111,
    100, 105, 102, 105, 101, 100, 32, 87, 111, 114, 108, 100, 33, 39, 41>>
(***************************************************************************)
(* The script (lines 168-180) and its demonstration routines               *)
(***************************************************************************)
\* print: the line of the call and the values of its replacement fields
Written(out, line, args) == Append(out, [line |-> line, args |-> args])

\* s[:n]
Slice(s, n) == PyStr(SubSeq(s.val, 1, IF Len(s.val) < n THEN Len(s.val) ELSE n))

\* a dict is the sequence of its <<key, value>> items in insertion order
DictSet(d, k, v) ==
  IF \E i \in 1..Len(d) : d[i][1] = k
  THEN [i \in 1..Len(d) |-> IF d[i][1] = k THEN <<k, v>> ELSE d[i]]
  ELSE Append(d, <<k, v>>)

DictGet(d, k) == d[CHOOSE i \in 1..Len(d) : d[i][1] = k][2]

\* os.urandom(10)
Urandom == {[i \in 1..10 |-> (83 * k + 37 * i) % 256] : k \in 0..MaxRandom}

\* an uncaught exception ends the script with a traceback and status 1
Crash(out) ==
  /\ pc' = "exit"
  /\ exit_code' = 1
  /\ locals' = <<>>
  /\ stdout' = out
  /\ UNCHANGED call

Init ==
  /\ pc = "L169"
  /\ locals = <<>>
  /\ stdout = <<>>
  /\ exit_code = -1
  /\ call = NoCall

\* lines 21-31
demonstrate_hash_properties_deterministic ==
  /\ pc = "L169"
  /\ LET out == Written(stdout, 21, <<>>)
         content == PyStr(HelloGit)
     IN \E hash1 \in {git_hash_object(PyStr(Blob), content)},
           hash2 \in {git_hash_object(PyStr(Blob), content)} :
        IF hash1.raised \/ hash2.raised THEN Crash(out)
        ELSE /\ locals' = [content |-> content, hash1 |-> hash1.value, hash2 |-> hash2.value]
             /\ stdout' = Written(Written(Written(Written(Written(out,
                            27, <<>>), 28, <<content>>), 29, <<hash1.value>>), 30, <<hash2.value>>),
                            31, <<PyBool(hash1.value = hash2.value)>>)
             /\ pc' = "L34"
             /\ UNCHANGED <<exit_code, call>>

\* lines 34-43
demonstrate_hash_properties_avalanche ==
  /\ pc = "L34"
  /\ LET content_a == PyStr(HelloGit)
         content_b == PyStr(HelloGitQ)
     IN \E hash_a \in {git_hash_object(PyStr(Blob), content_a)},
           hash_b \in {git_hash_object(PyStr(Blob), content_b)} :
        IF hash_a.raised \/ hash_b.raised THEN Crash(stdout)
        ELSE /\ locals' = [content_a |-> content_a, content_b |-> content_b,
                           hash_a |-> hash_a.value, hash_b |-> hash_b.value] @@ locals
             /\ stdout' = Written(Written(Written(Written(Written(Written(stdout,
                            38, <<>>), 39, <<content_a>>), 40, <<hash_a.value>>), 41, <<content_b>>),
                            42, <<hash_b.value>>), 43, <<PyBool(hash_a.value # hash_b.value)>>)
             /\ pc' = "L53"
             /\ UNCHANGED <<exit_code, call>>

\* lines 46-51 are folded into the first iteration
test_files ==
  <<<<PyStr(ReadmeName), PyStr(ReadmeText)>>, <<PyStr(MainName), PyStr(MainText)>>,
    <<PyStr(ConfigName), PyStr(ConfigText)>>>>

\* lines 46-55: one iteration of the loop over test_files.items(); the
\* routine returns after the last one
demonstrate_hash_properties_content_addressing ==
  /\ pc = "L53"
  /\ LET first == "test_files" \notin DOMAIN locals
         out == IF first THEN Written(stdout, 46, <<>>) ELSE stdout
         i == IF first THEN 1 ELSE locals.iter + 1
         filename == test_files[i][1]
         content == test_files[i][2]
     IN \E hash_val \in {git_hash_object(PyStr(Blob), content)} :
        IF hash_val.raised THEN Crash(out)
        ELSE /\ stdout' = Written(out, 55, <<filename, hash_val.value>>)
             /\ IF i < Len(test_files)
                  THEN /\ locals' = [test_files |-> test_files, iter |-> i, filename |-> filename,
                                     content |-> content, hash_val |-> hash_val.value] @@ locals
                       /\ pc' = "L53"
                  ELSE /\ locals' = <<>>
                       /\ pc' = "L170"
             /\ UNCHANGED <<exit_code, call>>

\* lines 60-67
demonstrate_integrity_verification_original ==
  /\ pc = "L170"
  /\ LET out == Written(stdout, 60, <<>>)
         original_content == PyStr(FibonacciText)
     IN \E original_hash \in {git_hash_object(PyStr(Blob), original_content)} :
        IF original_hash.raised THEN Crash(out)
        ELSE /\ locals' = [original_content |-> original_content, original_hash |-> original_hash.value]
             /\ stdout' = Written(Written(Written(out, 65, <<>>), 66, <<Slice(original_content, 50)>>),
                            67, <<original_hash.value>>)
             /\ pc' = "L70"
             /\ UNCHANGED <<exit_code, call>>

\* lines 70-77
demonstrate_integrity_verification_corruption ==
  /\ pc = "L70"
  /\ \E corrupted_content \in {PyStr(replace(locals.original_content.val, Fibonacci, Fibonaci))} :
     \E corrupted_hash \in {git_hash_object(PyStr(Blob), corrupted_content)} :
        IF corrupted_hash.raised THEN Crash(stdout)
        ELSE /\ locals' = [corrupted_content |-> corrupted_content,
                           corrupted_hash |-> corrupted_hash.value] @@ locals
             /\ stdout' = Written(Written(Written(Written(stdout, 73, <<>>),
                            74, <<Slice(corrupted_content, 50)>>), 75, <<corrupted_hash.value>>),
                            77, <<PyBool(locals.original_hash # corrupted_hash.value)>>)
             /\ pc' = "L84"
             /\ UNCHANGED <<exit_code, call>>

\* a faulty variant: the recomputed digest is compared with itself
verify_integrity_self_compare(expected_hash, content) ==
  LET actual_hash == git_hash_object(PyStr(Blob), content)
  IN IF actual_hash.raised THEN actual_hash
     ELSE Return(PyBool(actual_hash.value = actual_hash.value))

\* lines 80-82: the nested function; an exception of the hasher propagates
verify_integrity(expected_hash, content) ==
  LET actual_hash == git_hash_object(PyStr(Blob), content)
  IN IF actual_hash.raised THEN actual_hash
     ELSE Return(PyBool(actual_hash.value = expected_hash))

\* line 84
demonstrate_integrity_verification_check_original ==
  /\ pc = "L84"
  /\ \E r \in {verify_integrity(locals.original_hash, locals.original_content)} :
        IF r.raised THEN Crash(stdout)
        ELSE /\ stdout' = Written(stdout, 84, <<r.value>>)
             /\ pc' = "L85"
             /\ UNCHANGED <<locals, exit_code, call>>

\* a faulty variant: the script goes on with the Merkle tree routine
demonstrate_integrity_verification_check_corrupted_skip ==
  /\ pc = "L85"
  /\ \E r \in {verify_integrity(locals.original_hash, locals.corrupted_content)} :
        IF r.raised THEN Crash(stdout)
        ELSE /\ stdout' = Written(stdout, 85, <<r.value>>)
             /\ locals' = <<>>
             /\ pc' = "L172"
             /\ UNCHANGED <<exit_code, call>>

\* line 85, then the routine returns
demonstrate_integrity_verification_check_corrupted ==
  /\ pc = "L85"
  /\ \E r \in {verify_integrity(locals.original_hash, locals.corrupted_content)} :
        IF r.raised THEN Crash(stdout)
        ELSE /\ stdout' = Written(stdout, 85, <<r.value>>)
             /\ locals' = <<>>
             /\ pc' = "L171"
             /\ UNCHANGED <<exit_code, call>>

\* a faulty variant: both random entries carry the same prefix
demonstrate_collision_resistance_contents_same_prefix ==
  /\ pc = "L171"
  /\ \E r1 \in Urandom, r2 \in Urandom :
       locals' = [contents |-> <<PyStr(Version100), PyStr(Version101), PyStr(Version110),
                                 PyStr(Version200), PyStr(RandomContent \o Hex(r1)),
                                 PyStr(RandomContent \o Hex(r2)), PyStr(QuickFox),
                                 PyStr(QuickFoxDot)>>,
                  hashes |-> <<>>, iter |-> 0]
  /\ stdout' = Written(stdout, 90, <<>>)
  /\ pc' = "L105"
  /\ UNCHANGED <<exit_code, call>>

\* lines 90-104
demonstrate_collision_resistance_contents ==
  /\ pc = "L171"
  /\ \E r1 \in Urandom, r2 \in Urandom :
       locals' = [contents |-> <<PyStr(Version100), PyStr(Version101), PyStr(Version110),
                                 PyStr(Version200), PyStr(RandomContent \o Hex(r1)),
                                 PyStr(AnotherRandom \o Hex(r2)), PyStr(QuickFox),
                                 PyStr(QuickFoxDot)>>,
                  hashes |-> <<>>, iter |-> 0]
  /\ stdout' = Written(stdout, 90, <<>>)
  /\ pc' = "L105"
  /\ UNCHANGED <<exit_code, call>>

\* lines 105-108: one iteration of the loop over contents
demonstrate_collision_resistance_loop ==
  /\ pc = "L105"
  /\ LET i == locals.iter + 1
         content == locals.contents[i]
     IN \E hash_val \in {git_hash_object(PyStr(Blob), content)} :
        IF hash_val.raised THEN Crash(stdout)
        ELSE /\ locals' = [iter |-> i, content |-> content, hash_val |-> hash_val.value,
                           hashes |-> DictSet(locals.hashes, hash_val.value, content)] @@ locals
             /\ stdout' = Written(stdout, 108, <<Slice(content, 30), hash_val.value>>)
             /\ pc' = IF i < Len(locals.contents) THEN "L105" ELSE "L110"
             /\ UNCHANGED <<exit_code, call>>

\* lines 110-111, then the routine returns
demonstrate_collision_resistance_report ==
  /\ pc = "L110"
  /\ stdout' = Written(Written(stdout,
                 110, <<PyInt(Len(locals.contents)), PyInt(Len(locals.hashes))>>),
                 111, <<PyBool(Len(locals.contents) = Len(locals.hashes))>>)
  /\ locals' = <<>>
  /\ pc' = "L172"
  /\ UNCHANGED <<exit_code, call>>

\* lines 119-124
files ==
  <<<<PyStr(SrcMainName), PyStr(MainText)>>, <<PyStr(SrcUtilsName), PyStr(UtilsText)>>,
    <<PyStr(ReadmeName), PyStr(ReadmeTitle)>>, <<PyStr(LicenseName), PyStr(LicenseText)>>>>

\* lines 116-131: one iteration of the loop over files.items()
demonstrate_merkle_tree_concept_blobs ==
  /\ pc = "L172"
  /\ LET first == "files" \notin DOMAIN locals
         out == IF first THEN Written(stdout, 116, <<>>) ELSE stdout
         i == IF first THEN 1 ELSE locals.iter + 1
         file_hashes == IF first THEN <<>> ELSE locals.file_hashes
         filename == files[i][1]
         content == files[i][2]
     IN \E hash_val \in {git_hash_object(PyStr(Blob), content)} :
        IF hash_val.raised THEN Crash(out)
        ELSE /\ locals' = [files |-> files, iter |-> i, filename |-> filename, content |-> content,
                           hash_val |-> hash_val.value,
                           file_hashes |-> DictSet(file_hashes, filename, hash_val.value)] @@ locals
             /\ stdout' = Written(out, 131, <<filename, hash_val.value>>)
             /\ pc' = IF i < Len(files) THEN "L172" ELSE "L134"
             /\ UNCHANGED <<exit_code, call>>

\* lines 134-137: "".join of the two entries
src_tree_content(file_hashes) ==
  PyStr(EntryMain \o DictGet(file_hashes, PyStr(SrcMainName)).val
          \o EntryUtils \o DictGet(file_hashes, PyStr(SrcUtilsName)).val)

\* lines 140-144: "".join of the three entries
root_tree_content(src_tree_hash, file_hashes) ==
  PyStr(EntrySrc \o src_tree_hash.val
          \o EntryReadme \o DictGet(file_hashes, PyStr(ReadmeName)).val
          \o EntryLicense \o DictGet(file_hashes, PyStr(LicenseName)).val)

\* lines 134-138
demonstrate_merkle_tree_concept_src_tree ==
  /\ pc = "L134"
  /\ LET content == src_tree_content(locals.file_hashes)
     IN \E src_tree_hash \in {git_hash_object(PyStr(Tree), content)} :
        IF src_tree_hash.raised THEN Crash(stdout)
        ELSE /\ locals' = [src_tree_content |-> content, src_tree_hash |-> src_tree_hash.value] @@ locals
             /\ pc' = "L140"
             /\ UNCHANGED <<stdout, exit_code, call>>

\* lines 140-150
demonstrate_merkle_tree_concept_root_tree ==
  /\ pc = "L140"
  /\ LET content == root_tree_content(locals.src_tree_hash, locals.file_hashes)
     IN \E root_tree_hash \in {git_hash_object(PyStr(Tree), content)} :
        IF root_tree_hash.raised THEN Crash(stdout)
        ELSE /\ locals' = [root_tree_content |-> content, root_tree_hash |-> root_tree_hash.value] @@ locals
             /\ stdout' = Written(Written(Written(stdout, 147, <<locals.src_tree_hash>>),
                            148, <<root_tree_hash.value>>), 150, <<>>)
             /\ pc' = "L153"
             /\ UNCHANGED <<exit_code, call>>

\* lines 153-157
demonstrate_merkle_tree_concept_modify ==
  /\ pc = "L153"
  /\ LET modified_files == DictSet(locals.files, PyStr(SrcMainName), PyStr(ModifiedText))
     IN \E new_main_hash \in {git_hash_object(PyStr(Blob), DictGet(modified_files, PyStr(SrcMainName)))} :
        IF new_main_hash.raised THEN Crash(stdout)
        ELSE /\ locals' = [modified_files |-> modified_files, new_main_hash |-> new_main_hash.value] @@ locals
             /\ pc' = "L158"
             /\ UNCHANGED <<stdout, exit_code, call>>

\* lines 158-159
demonstrate_merkle_tree_concept_new_src_tree ==
  /\ pc = "L158"
  /\ \E content \in {PyStr(replace(locals.src_tree_content.val,
                                    DictGet(locals.file_hashes, PyStr(SrcMainName)).val,
                                    locals.new_main_hash.val))} :
     \E new_src_tree_hash \in {git_hash_object(PyStr(Tree), content)} :
        IF new_src_tree_hash.raised THEN Crash(stdout)
        ELSE /\ locals' = [new_src_tree_content |-> content,
                           new_src_tree_hash |-> new_src_tree_hash.value] @@ locals
             /\ pc' = "L160"
             /\ UNCHANGED <<stdout, exit_code, call>>

\* lines 160-165, then the routine returns
demonstrate_merkle_tree_concept_new_root_tree ==
  /\ pc = "L160"
  /\ \E content \in {PyStr(replace(locals.root_tree_content.val, locals.src_tree_hash.val,
                                    locals.new_src_tree_hash.val))} :
     \E new_root_tree_hash \in {git_hash_object(PyStr(Tree), content)} :
        IF new_root_tree_hash.raised THEN Crash(stdout)
        ELSE /\ stdout' = Written(Written(Written(stdout, 163, <<>>), 164, <<new_root_tree_hash.value>>),
                            165, <<PyBool(locals.root_tree_hash # new_root_tree_hash.value)>>)
             /\ locals' = <<>>
             /\ pc' = "L174"
             /\ UNCHANGED <<exit_code, call>>

\* lines 174-180: the conclusion banner, then the interpreter exits
conclusion ==
  /\ pc = "L174"
  /\ stdout' = Written(Written(Written(Written(Written(Written(Written(stdout, 174, <<>>),
                 175, <<>>), 176, <<>>), 177, <<>>), 178, <<>>), 179, <<>>), 180, <<>>)
  /\ pc' = "exit"
  /\ exit_code' = 0
  /\ UNCHANGED <<locals, call>>

Next ==
  \/ demonstrate_hash_properties_deterministic
  \/ demonstrate_hash_properties_avalanche
  \/ demonstrate_hash_properties_content_addressing
  \/ demonstrate_integrity_verification_original
  \/ demonstrate_integrity_verification_corruption
  \/ demonstrate_integrity_verification_check_original
  \/ demonstrate_integrity_verification_check_corrupted
  \/ demonstrate_collision_resistance_contents
  \/ demonstrate_collision_resistance_loop
  \/ demonstrate_collision_resistance_report
  \/ demonstrate_merkle_tree_concept_blobs
  \/ demonstrate_merkle_tree_concept_src_tree
  \/ demonstrate_merkle_tree_concept_root_tree
  \/ demonstrate_merkle_tree_concept_modify
  \/ demonstrate_merkle_tree_concept_new_src_tree
  \/ demonstrate_merkle_tree_concept_new_root_tree
  \/ conclusion

Spec == Init /\ [][Next]_vars

\* the interpreter runs the single thread of the script until it exits
LiveSpec == Init /\ [][Next]_vars /\ WF_vars(Next)

(***************************************************************************)
(* Properties                                                              *)
(***************************************************************************)
\* the replacement fields written by the print call of the given line
Printed(line) == {stdout[i].args : i \in {j \in 1..Len(stdout) : stdout[j].line = line}}

StrCall ==
  /\ call.phase = "done"
  /\ call.obj_type.type = "str"
  /\ call.content.type = "str"

\* C1: for every type tag and content, git_hash_object returns the digest of
\* "<type> <n>\0" followed by the UTF-8 bytes of the content, n being the
\* number of those bytes
C1_HeaderCountsBytes ==
  (StrCall /\ ~encode_utf8(call.obj_type.val \o call.content.val).raised) =>
    LET bytes == encode_utf8(call.content.val).value.val
        buffer == encode_utf8(call.obj_type.val).value.val \o <<32>>
                    \o Decimal(Len(bytes)) \o <<0>> \o bytes
    IN call.outcome = Return(PyStr(sha1_hexdigest(buffer)))

\* C4: a call with a str type tag and a bytes content returns a digest
C4_BytesContentHashed ==
  (call.phase = "done" /\ call.obj_type.type = "str" /\ call.content.type = "bytes") =>
    /\ ~call.outcome.raised
    /\ call.outcome.value.type = "str"
    /\ Len(call.outcome.value.val) = 40

\* C5: a call whose type tag is not a str, or whose content is neither str
\* nor bytes, raises and returns no digest
C5_MalformedInputRaises ==
  (call.phase = "done"
     /\ (call.obj_type.type # "str" \/ call.content.type \notin {"str", "bytes"})) =>
    call.outcome.raised

\* the digests of the four files after the change of src/main.py, each
\* computed from the modified file map
modified_files == DictSet(files, PyStr(SrcMainName), PyStr(ModifiedText))

rebuilt_file_hashes ==
  [i \in 1..Len(modified_files) |->
     <<modified_files[i][1], git_hash_object(PyStr(Blob), modified_files[i][2]).value>>]

Unchanged == {PyStr(SrcUtilsName), PyStr(ReadmeName), PyStr(LicenseName)}

\* C3: changing only the content of src/main.py changes its blob digest, the
\* src tree digest and the root digest; the digests of src/utils.py,
\* README.md and LICENSE stay the same
C3_MerklePropagation ==
  /\ pc \in {"L158", "L160"} =>
       /\ \A i \in 1..Len(files) :
            /\ locals.modified_files[i][1] = files[i][1]
            /\ (locals.modified_files[i][2] = files[i][2]) <=> (files[i][1] \in Unchanged)
       /\ locals.new_main_hash # DictGet(locals.file_hashes, PyStr(SrcMainName))
       /\ \A f \in Unchanged :
            git_hash_object(PyStr(Blob), DictGet(locals.modified_files, f))
              = Return(DictGet(locals.file_hashes, f))
  /\ pc = "L160" => locals.new_src_tree_hash # locals.src_tree_hash
  /\ Printed(165) \subseteq {<<PyBool(TRUE)>>}
  /\ Printed(164) \cap Printed(148) = {}

C3_Witness ==
  /\ pc = "L174"
  /\ Printed(165) = {<<PyBool(TRUE)>>}
  /\ Printed(164) # {}

\* C6: verify_integrity returns true exactly when the blob digest of the
\* content equals the expected digest; the demo reports true for the original
\* content and false for the corrupted content
C6_VerifyIntegrity ==
  /\ pc \in {"L84", "L85"} =>
       \A e \in {locals.original_hash, locals.corrupted_hash},
          c \in {locals.original_content, locals.corrupted_content} :
         verify_integrity(e, c) = Return(PyBool(git_hash_object(PyStr(Blob), c) = Return(e)))
  /\ Printed(84) \subseteq {<<PyBool(TRUE)>>}
  /\ Printed(85) \subseteq {<<PyBool(FALSE)>>}
  /\ pc \in {"L171", "exit"} /\ exit_code # 1 => Printed(84) # {} /\ Printed(85) # {}

C6_Witness ==
  /\ pc = "L171"
  /\ Printed(84) = {<<PyBool(TRUE)>>}
  /\ Printed(85) = {<<PyBool(FALSE)>>}

\* C7: whatever the two random draws, the 8 contents are pairwise distinct,
\* every content adds an entry to the mapping keyed by digest, and the report
\* is 8 contents, 8 unique hashes, no collisions found: True
C7_NoCollision ==
  /\ pc \in {"L105", "L110"} =>
       /\ Len(locals.contents) = 8
       /\ \A i, j \in 1..Len(locals.contents) : i # j => locals.contents[i] # locals.contents[j]
       /\ Len(locals.hashes) = locals.iter
       /\ \A i, j \in 1..Len(locals.hashes) : i # j => locals.hashes[i][1] # locals.hashes[j][1]
  /\ pc = "L110" => Len(locals.hashes) = 8
  /\ Printed(110) \subseteq {<<PyInt(8), PyInt(8)>>}
  /\ Printed(111) \subseteq {<<PyBool(TRUE)>>}

\* both draws returned the same bytes and the report was written
C7_Witness ==
  /\ pc = "L172"
  /\ Printed(111) = {<<PyBool(TRUE)>>}
  /\ \E a \in Printed(108), b \in Printed(108) :
       /\ Len(a[1].val) = 30
       /\ Len(b[1].val) = 30
       /\ SubSeq(a[1].val, 1, 15) = RandomContent
       /\ SubSeq(b[1].val, 1, 15) = AnotherRandom
       /\ SubSeq(a[1].val, 16, 30) = SubSeq(b[1].val, 16, 30)

\* the routine a print call belongs to, in the order of the script
Routine(line) ==
  IF line < 58 THEN 1 ELSE IF line < 88 THEN 2 ELSE IF line < 114 THEN 3
  ELSE IF line < 168 THEN 4 ELSE 5

Count(line) == Cardinality({i \in 1..Len(stdout) : stdout[i].line = line})

InOrder ==
  /\ \A i \in 1..(Len(stdout) - 1) : Routine(stdout[i].line) <= Routine(stdout[i + 1].line)
  /\ \A line \in {21, 60, 90, 116, 174} : Count(line) <= 1
  /\ Count(60) = 1 => Count(55) = 3
  /\ Count(90) = 1 => Count(85) = 1
  /\ Count(116) = 1 => Count(111) = 1
  /\ Count(174) = 1 => Count(165) = 1
  /\ pc = "exit" =>
       /\ exit_code = 0
       /\ \A line \in {21, 60, 90, 116, 174} : Count(line) = 1
       /\ stdout[Len(stdout)].line = 180
  /\ pc # "exit" => exit_code = -1

\* C8: the script runs hash properties, integrity verification, collision
\* resistance and the Merkle tree once each, in this order, each after the
\* previous one has finished, then the conclusion, and exits with status 0
C8_RunsAllInOrder == []InOrder /\ <>(pc = "exit" /\ exit_code = 0)

C8_Witness ==
  /\ pc = "exit"
  /\ exit_code = 0
  /\ Len(stdout) = 55

NulFree(t) == \A i \in 1..Len(t.val) : t.val[i] # 0

\* C9: for a fixed type tag, two different contents never give the same
\* header-plus-content buffer; for type tags without NUL, two different
\* (type, content) pairs never give the same buffer
C9_Sensitivity ==
  (StrCall /\ ~call.outcome.raised) =>
    LET buffer == full_data(call.obj_type, call.content)
    IN /\ \A c \in StrContents :
            c # call.content => full_data(call.obj_type, c) # buffer
       /\ NulFree(call.obj_type) =>
            \A t \in StrTags, c \in StrContents :
              (NulFree(t) /\ <<t, c>> # <<call.obj_type, call.content>>) => full_data(t, c) # buffer

\* a tag with a space was hashed with a content that holds a digit and a NUL
C9_Witness ==
  /\ StrCall
  /\ ~call.outcome.raised
  /\ call.obj_type = PyStr(<<32>>)
  /\ call.content = PyStr(<<49, 0>>)

\* C10: patching the old tree contents by replacing the old digest gives the
\* tree contents and digests that are built from the modified file map; the
\* old digest occurs once, in the entry of the changed child, and the rest of
\* the content is left as it was
C10_PatchEqualsRebuild ==
  /\ pc = "L160" =>
       \E src \in {src_tree_content(rebuilt_file_hashes)} :
         /\ locals.new_src_tree_content = src
         /\ Return(locals.new_src_tree_hash) = git_hash_object(PyStr(Tree), src)
         /\ PyStr(replace(locals.root_tree_content.val, locals.src_tree_hash.val,
                          locals.new_src_tree_hash.val))
              = root_tree_content(locals.new_src_tree_hash, rebuilt_file_hashes)
         /\ Occurrences(locals.src_tree_content.val,
                        DictGet(locals.file_hashes, PyStr(SrcMainName)).val) = {Len(EntryMain) + 1}
         /\ Occurrences(locals.root_tree_content.val, locals.src_tree_hash.val) = {Len(EntrySrc) + 1}
         /\ SubSeq(src.val, 1, Len(EntryMain)) = EntryMain
         /\ SubSeq(src.val, Len(EntryMain) + 41, Len(src.val))
              = SubSeq(locals.src_tree_content.val, Len(EntryMain) + 41, Len(src.val))
  /\ pc = "L174" =>
       \E fh \in {rebuilt_file_hashes} :
         \E src_hash \in {git_hash_object(PyStr(Tree), src_tree_content(fh)).value} :
           Printed(164) = {<<git_hash_object(PyStr(Tree), root_tree_content(src_hash, fh)).value>>}

C10_Witness ==
  /\ pc = "L174"
  /\ Printed(164) # {}
  /\ Printed(164) \cap Printed(148) = {}

====
